---- MODULE Spec2Model ----
(***************************************************************************)
(* Model of mqtt_io/server.py: the MqttGpio runtime (message router, per   *)
(* module output workers, timed pulses, task reaper, receive loop and the  *)
(* signal-driven shutdown) on one cooperative asyncio event loop.          *)
(*                                                                         *)
(* One action is one uninterrupted run of a task between two suspension    *)
(* points (an await that really suspends), or one event of the environment *)
(* (a message delivered by the broker, a hardware write finishing, a timer *)
(* tick, a signal).                                                        *)
(*                                                                         *)
(* Strings that the code inspects character by character (payloads) are    *)
(* sequences of character codes; topics are the sequences of their         *)
(* "/"-separated segments (segments are non-empty and hold no "/").        *)
(***************************************************************************)
EXTENDS Integers, Sequences, FiniteSets, TLC

\* ------------------------------------------------------------------ bounds
\* number of inbound messages the receive loop handles in one run
MaxMsgs == 2
\* number of termination signals delivered in one run
MaxSignals == 2
\* number of calls of async_set_pin that raise in one run
MaxFaults == 1

\* --------------------------------------------------------------- constants
SET_TOPIC == "set"
SET_ON_MS_TOPIC == "set_on_ms"
SET_OFF_MS_TOPIC == "set_off_ms"
OUTPUT_TOPIC == "output"

\* config["mqtt"]["topic_prefix"] and the status payloads of the configuration
topic_prefix == "P"
status_payload_running == "running"
status_payload_stopped == "stopped"

\* payload strings as character codes
STR_ON == <<79, 78>>
STR_OFF == <<79, 70, 70>>
STR_1 == <<49>>
STR_0 == <<48>>
\* received bytes that are no valid UTF-8 (a lone 0xFF)
BYTES_INVALID == <<255>>

\* config["gpio_modules"]: m3 is a module without any output
gpio_module_names == {"m1", "m2", "m3"}

\* self.gpio_modules and self.sensor_modules: the modules in the order in which
\* the dicts were filled
gpio_modules == <<"m1", "m2", "m3">>

sensor_modules == <<"s1">>

ModuleNames == gpio_module_names \cup {"s1"}

\* config["digital_outputs"], in configuration order
digital_outputs ==
    << [name |-> "o1", module |-> "m1", pin |-> 1, inverted |-> FALSE,
        on_payload |-> STR_ON, off_payload |-> STR_OFF, retain |-> TRUE],
       [name |-> "o2", module |-> "m1", pin |-> 2, inverted |-> TRUE,
        on_payload |-> STR_1, off_payload |-> STR_0, retain |-> FALSE],
       [name |-> "o3", module |-> "m2", pin |-> 1, inverted |-> FALSE,
        on_payload |-> STR_ON, off_payload |-> STR_OFF, retain |-> FALSE] >>

OutputNames == {digital_outputs[i].name : i \in DOMAIN digital_outputs}

\* self.digital_output_configs: name -> config
digital_output_configs ==
    [n \in OutputNames |->
        CHOOSE c \in {digital_outputs[i] : i \in DOMAIN digital_outputs} : c.name = n]

\* ------------------------------------------------------------ pure helpers
\* bytes.decode("utf8") / str.encode("utf8") on the payloads used here: code
\* points below 128 are one byte each; any byte >= 128 here is a lone 0xFF,
\* which no UTF-8 string contains
DecodeOk(bytes) == \A i \in DOMAIN bytes : bytes[i] < 128

decode_utf8(bytes) == [i \in DOMAIN bytes |-> bytes[i]]

encode_utf8(str) == [i \in DOMAIN str |-> str[i]]

IsDigit(c) == c >= 48 /\ c <= 57

\* float(payload) succeeds (on the alphabet used here: optional sign, digits)
FloatOk_any(str) == TRUE

FloatOk(str) ==
    LET body == IF Len(str) > 0 /\ str[1] = 45 THEN Tail(str) ELSE str
    IN  Len(body) > 0 /\ \A i \in DOMAIN body : IsDigit(body[i])

RECURSIVE DigitsValue(_)
DigitsValue(ds) ==
    IF ds = <<>> THEN 0
    ELSE 10 * DigitsValue(SubSeq(ds, 1, Len(ds) - 1)) + (ds[Len(ds)] - 48)

\* float(payload), in milliseconds (secs = float(payload) / 1000)
float_ms(str) ==
    IF str[1] = 45 THEN 0 - DigitsValue(Tail(str)) ELSE DigitsValue(str)

\* topic.endswith("/%s" % x)
EndsWith(topic, x) == Len(topic) >= 2 /\ topic[Len(topic)] = x

HasSetSuffix(topic) ==
    \E x \in {SET_TOPIC, SET_ON_MS_TOPIC, SET_OFF_MS_TOPIC} : EndsWith(topic, x)

\* re.match("^{prefix}/output/(.+?)/.+$", topic) is not None
TopicMatches(topic, prefix) ==
    /\ Len(topic) >= 4
    /\ topic[1] = prefix
    /\ topic[2] = OUTPUT_TOPIC

\* output_name_from_topic: group(1) of the non-greedy match is the first
\* segment after "<prefix>/output/"
output_name_from_topic(topic, prefix) == topic[3]

\* set_digital_output: the level handed to module.async_set_pin
SetValue_noinvert(output_config, value) == value

SetValue(output_config, value) == value /= output_config.inverted

\* digital_output_loop: payload in (on_payload, off_payload)
ValidPayload_any(output_config, payload) == TRUE

ValidPayload(output_config, payload) ==
    payload \in {output_config.on_payload, output_config.off_payload}

\* asyncio.Queue(): put_nowait adds at the end, get takes from the front
put_nowait_lifo(q, item) == <<item>> \o q

put_nowait(q, item) == Append(q, item)

\* key of self.module_output_queues used for an output
QueueKey_name(output_config) == output_config.name

QueueKey(output_config) == output_config.module

\* events recorded for a task: the calls it made, in order
SetPinEv(module, pin, value) ==
    [op |-> "set_pin", module |-> module, pin |-> pin, value |-> value,
     topic |-> <<>>, payload |-> <<>>, retain |-> FALSE]

PublishEv(topic, payload, retain) ==
    [op |-> "publish", module |-> "", pin |-> 0, value |-> FALSE,
     topic |-> topic, payload |-> payload, retain |-> retain]

SleepEv(ms) ==
    [op |-> "sleep", module |-> "", pin |-> ms, value |-> FALSE,
     topic |-> <<>>, payload |-> <<>>, retain |-> FALSE]

OutputTopic(name) == <<topic_prefix, OUTPUT_TOPIC, name>>

\* ------------------------------------------------------------------- state
\* an OutputCommand: the tuple (module, output_config, payload) put on a
\* queue, with the sequence number of its put_nowait
NoCmd == [id |-> 0, module |-> "", output |-> "", payload |-> <<>>]

NoRecord == [cmd |-> NoCmd, trace |-> <<>>, outcome |-> ""]

\* no message has been delivered yet
NoMsg == [topic |-> <<>>, data |-> <<>>]

\* run() is inside run_forever(): no cleanup() called, nothing logged
NoCleanup == [done |-> FALSE, raised |-> FALSE, cleaned |-> <<>>, failed |-> <<>>,
              log |-> <<>>]

\* _init_digital_outputs: the keys of the queues created, in creation order;
\* one digital_output_loop task is created with each queue
RECURSIVE init_digital_outputs(_, _)
init_digital_outputs(confs, keys) ==
    IF confs = <<>> THEN <<>>
    ELSE LET k == QueueKey(Head(confs))
         IN  IF k \notin keys
             THEN <<k>> \o init_digital_outputs(Tail(confs), keys \cup {k})
             ELSE init_digital_outputs(Tail(confs), keys)

WorkerQueues == init_digital_outputs(digital_outputs, {})

QueueKeys == {WorkerQueues[i] : i \in DOMAIN WorkerQueues}

PinKeys == {<<digital_outputs[i].module, digital_outputs[i].pin>> :
                i \in DOMAIN digital_outputs}

VARIABLES
    module_output_queues, \* queue key -> sequence of OutputCommand
    workers,              \* the digital_output_loop tasks
    pulses,               \* the set_ms tasks, in creation order
    poller,               \* the poll_sensor task
    rx,                   \* the _mqtt_rx_loop task (self.tasks[0])
    reaper,               \* the _remove_finished_tasks task (self.tasks[1])
    shutdowns,            \* the shutdown tasks, one per signal received
    unawaited_tasks,      \* self.unawaited_tasks: list of task ids
    loop_stopped,         \* loop.stop() has been called
    connected,            \* the MQTT client is connected
    status,               \* retained payload of P/status at the broker
    pins,                 \* (module, pin) -> level last written
    published,            \* output name -> payload last published on P/output/<name>
    enq,                  \* queue key -> ids put on the queue, in order
    deq,                  \* queue key -> ids taken from the queue, in order
    nmsg,                 \* number of inbound messages handled
    logged,               \* tasks whose exception the reaper logged, in order
    faults,               \* number of async_set_pin calls that raised
    delivered,            \* the message last returned by deliver_message()
    cleanup               \* the finally block of run(): cleanup calls and log

vars == <<module_output_queues, workers, pulses, poller, rx, reaper, shutdowns,
          unawaited_tasks, loop_stopped, connected, status, pins, published,
          enq, deq, nmsg, logged, faults, delivered, cleanup>>

\* task ids
WorkerId(i) == <<"worker", i>>
PulseId(i) == <<"pulse", i>>
ShutdownId(i) == <<"shutdown", i>>
PollerId == <<"poller", 1>>
RxId == <<"rx", 1>>
ReaperId == <<"reaper", 1>>

\* state after run() has created self.tasks (line 421-424) and before the
\* loop runs: connected, "running" published, queues empty, no pin written
Init ==
    /\ module_output_queues = [k \in QueueKeys |-> <<>>]
    /\ workers = [i \in DOMAIN WorkerQueues |->
                    [queue |-> WorkerQueues[i], pc |-> "get", cancel |-> FALSE,
                     res |-> "pending", cur |-> NoCmd, trace |-> <<>>,
                     last |-> NoRecord]]
    /\ pulses = <<>>
    /\ poller = [pc |-> "loop", cancel |-> FALSE, res |-> "pending"]
    /\ rx = [pc |-> "deliver", cancel |-> FALSE, res |-> "pending", why |-> ""]
    /\ reaper = [pc |-> "sleep", cancel |-> FALSE, res |-> "pending"]
    /\ shutdowns = <<>>
    /\ unawaited_tasks = [i \in DOMAIN WorkerQueues |-> WorkerId(i)] \o <<PollerId>>
    /\ loop_stopped = FALSE
    /\ connected = TRUE
    /\ status = status_payload_running
    /\ pins = [k \in PinKeys |-> "unset"]
    /\ published = [n \in OutputNames |-> <<>>]
    /\ enq = [k \in QueueKeys |-> <<>>]
    /\ deq = [k \in QueueKeys |-> <<>>]
    /\ nmsg = 0
    /\ logged = <<>>
    /\ faults = 0
    /\ delivered = NoMsg
    /\ cleanup = NoCleanup

Level(value) == IF value THEN "high" ELSE "low"

\* Task.done()
Done(t) == t.res /= "pending"

\* a task that is scheduled normally: not finished, no cancellation pending
Runs(t) == ~loop_stopped /\ t.res = "pending" /\ ~t.cancel

\* the task gets CancelledError at its suspension point
Unwinds(t) == ~loop_stopped /\ t.res = "pending" /\ t.cancel

\* ------------------------------------------------------- the message router
\* messages the broker can deliver: the subscribed topics, and topics of a
\* session that outlives a configuration (unknown output, other shapes)
Inbound ==
    { [topic |-> <<topic_prefix, OUTPUT_TOPIC, "o1", SET_TOPIC>>, data |-> STR_ON],
      [topic |-> <<topic_prefix, OUTPUT_TOPIC, "o1", SET_TOPIC>>, data |-> STR_1],
      [topic |-> <<topic_prefix, OUTPUT_TOPIC, "o2", SET_TOPIC>>, data |-> STR_1],
      [topic |-> <<topic_prefix, OUTPUT_TOPIC, "o3", SET_TOPIC>>, data |-> STR_OFF],
      [topic |-> <<topic_prefix, OUTPUT_TOPIC, "o1", SET_ON_MS_TOPIC>>, data |-> STR_1],
      [topic |-> <<topic_prefix, OUTPUT_TOPIC, "o2", SET_OFF_MS_TOPIC>>, data |-> STR_0],
      [topic |-> <<topic_prefix, OUTPUT_TOPIC, "o3", SET_ON_MS_TOPIC>>, data |-> STR_ON],
      [topic |-> <<topic_prefix, OUTPUT_TOPIC, "o9", SET_TOPIC>>, data |-> STR_ON],
      [topic |-> <<topic_prefix, OUTPUT_TOPIC, "o1", SET_TOPIC>>, data |-> BYTES_INVALID],
      [topic |-> <<topic_prefix, "status">>, data |-> STR_ON],
      [topic |-> <<"Q", OUTPUT_TOPIC, "o1", SET_TOPIC>>, data |-> STR_ON],
      [topic |-> <<topic_prefix, OUTPUT_TOPIC, SET_TOPIC>>, data |-> STR_ON] }

\* _handle_mqtt_msg: which branch a topic takes
Route(topic) ==
    IF ~HasSetSuffix(topic) THEN "ignored"
    ELSE IF ~TopicMatches(topic, topic_prefix) THEN "ValueError"
    ELSE IF output_name_from_topic(topic, topic_prefix) \notin DOMAIN digital_output_configs
         THEN "KeyError"
    ELSE IF EndsWith(topic, SET_TOPIC) THEN "set"
    ELSE "set_ms"

\* desired_value of a pulse (line 285)
DesiredValue_off(topic) == EndsWith(topic, SET_OFF_MS_TOPIC)

DesiredValue(topic) == EndsWith(topic, SET_ON_MS_TOPIC)

\* the finally block of _mqtt_rx_loop starts: publish(status stopped) is awaited
RxFinally(why) == [rx EXCEPT !.pc = "fin_publish", !.cancel = FALSE, !.why = why]

\* _mqtt_rx_loop: one message delivered, decoded and handled (lines 342-346)
RxMessage ==
    /\ Runs(rx) /\ rx.pc = "deliver" /\ connected
    /\ nmsg < MaxMsgs
    /\ \E msg \in Inbound :
      LET topic == msg.topic
          data == msg.data
      IN
        /\ nmsg' = nmsg + 1
        /\ delivered' = msg
        /\ IF ~DecodeOk(data) \/ Route(topic) = "KeyError"
           THEN \* UnicodeDecodeError / KeyError leaves the while loop
                /\ rx' = RxFinally("error")
                /\ UNCHANGED <<module_output_queues, enq, pulses, unawaited_tasks>>
           ELSE LET payload == decode_utf8(data)
                    r == Route(topic)
                    conf == digital_output_configs[
                                output_name_from_topic(topic, topic_prefix)]
                IN  /\ rx' = rx
                    /\ IF r = "set"
                       THEN LET k == QueueKey(conf)
                                c == [id |-> nmsg + 1, module |-> conf.module,
                                      output |-> conf.name, payload |-> payload]
                            IN  /\ module_output_queues' =
                                      [module_output_queues EXCEPT ![k] = put_nowait(@, c)]
                                /\ enq' = [enq EXCEPT ![k] = Append(@, c.id)]
                                /\ UNCHANGED <<pulses, unawaited_tasks>>
                       ELSE IF r = "set_ms"
                       THEN /\ pulses' = Append(pulses,
                                  [topic |-> topic, output |-> conf.name,
                                   desired |-> DesiredValue(topic),
                                   payload |-> payload, pc |-> "new", cancel |-> FALSE,
                                   res |-> "pending", trace |-> <<>>, ms |-> 0,
                                   elapsed |-> 0])
                            /\ unawaited_tasks' =
                                  Append(unawaited_tasks, PulseId(Len(pulses) + 1))
                            /\ UNCHANGED <<module_output_queues, enq>>
                       ELSE UNCHANGED <<module_output_queues, enq, pulses,
                                        unawaited_tasks>>
    /\ UNCHANGED <<workers, poller, reaper, shutdowns, loop_stopped, connected,
                   status, pins, published, deq, logged, faults, cleanup>>

\* the awaited publish of the "stopped" status completes (lines 348-358)
RxFinPublishDone ==
    /\ Runs(rx) /\ rx.pc = "fin_publish" /\ connected
    /\ status' = status_payload_stopped
    /\ rx' = [rx EXCEPT !.pc = "fin_disconnect"]
    /\ UNCHANGED <<module_output_queues, workers, pulses, poller, reaper, shutdowns,
                   unawaited_tasks, loop_stopped, connected, pins, published, enq,
                   deq, nmsg, logged, faults, delivered, cleanup>>

\* the awaited disconnect completes; the task ends with what made it leave
\* the loop (lines 359-360)
RxFinDisconnectDone ==
    /\ Runs(rx) /\ rx.pc = "fin_disconnect"
    /\ connected' = FALSE
    /\ rx' = [rx EXCEPT !.pc = "done", !.res = rx.why]
    /\ UNCHANGED <<module_output_queues, workers, pulses, poller, reaper, shutdowns,
                   unawaited_tasks, loop_stopped, status, pins, published, enq,
                   deq, nmsg, logged, faults, delivered, cleanup>>

\* CancelledError is thrown into _mqtt_rx_loop where it is suspended: in the
\* while loop it enters the finally block; inside the finally block it ends
\* the block there (a publish cut off may or may not have reached the broker)
RxCancelled ==
    /\ Unwinds(rx)
    /\ \/ /\ rx.pc = "deliver"
          /\ rx' = RxFinally("cancelled")
          /\ UNCHANGED status
       \/ /\ rx.pc = "fin_publish"
          /\ rx' = [rx EXCEPT !.pc = "done", !.res = "cancelled", !.cancel = FALSE]
          /\ \E sent \in BOOLEAN :
                status' = IF sent /\ connected THEN status_payload_stopped ELSE status
       \/ /\ rx.pc = "fin_disconnect"
          /\ rx' = [rx EXCEPT !.pc = "done", !.res = "cancelled", !.cancel = FALSE]
          /\ UNCHANGED status
    /\ UNCHANGED <<module_output_queues, workers, pulses, poller, reaper, shutdowns,
                   unawaited_tasks, loop_stopped, connected, pins, published, enq,
                   deq, nmsg, logged, faults, delivered, cleanup>>

\* -------------------------------------------------- digital_output_loop
\* the loop from `await queue.get()` with queue contents q up to its next
\* suspension: invalid payloads are logged and skipped (continue), the first
\* valid command is started; on an empty queue the task blocks
RECURSIVE Drain(_)
Drain(q) ==
    IF q = <<>> THEN [rest |-> <<>>, rejected |-> <<>>, cur |-> NoCmd]
    ELSE LET c == Head(q)
         IN  IF ~ValidPayload(digital_output_configs[c.output], c.payload)
             THEN LET r == Drain(Tail(q))
                  IN  [r EXCEPT !.rejected = <<c>> \o r.rejected]
             ELSE [rest |-> Tail(q), rejected |-> <<>>, cur |-> c]

\* the call module.async_set_pin(pin, set_value) made by set_digital_output
SetPinCall(module, output_config, value) ==
    SetPinEv(module, output_config.pin, SetValue(output_config, value))

\* the call self.mqtt.publish(topic, payload.encode("utf8"), qos=1, retain=...)
PublishCall(output_config, payload) ==
    PublishEv(OutputTopic(output_config.name), encode_utf8(payload),
              output_config.retain)

Ids(cmds) == [j \in DOMAIN cmds |-> cmds[j].id]

\* worker w resumes at queue.get() (lines 379-391)
AfterGet(w) ==
    LET d == Drain(module_output_queues[w.queue])
        conf == digital_output_configs[d.cur.output]
    IN  [worker |->
            [w EXCEPT
                !.pc = IF d.cur = NoCmd THEN "get" ELSE "set_pin",
                !.cur = d.cur,
                !.trace = IF d.cur = NoCmd THEN <<>>
                          ELSE <<SetPinCall(d.cur.module, conf,
                                            d.cur.payload = conf.on_payload)>>,
                !.last = IF d.rejected = <<>> THEN w.last
                         ELSE [cmd |-> d.rejected[Len(d.rejected)],
                               trace |-> <<>>, outcome |-> "rejected"]],
         rest |-> d.rest,
         taken |-> Ids(d.rejected) \o (IF d.cur = NoCmd THEN <<>> ELSE <<d.cur.id>>)]

WorkerFrame == UNCHANGED <<pulses, poller, rx, reaper, shutdowns, unawaited_tasks,
                           loop_stopped, connected, status, enq, nmsg, logged>>

\* queue.get() returns to a worker blocked on its queue
WorkerGet(i) ==
    LET w == workers[i]
        a == AfterGet(w)
    IN  /\ Runs(w) /\ w.pc = "get"
        /\ module_output_queues[w.queue] /= <<>>
        /\ workers' = [workers EXCEPT ![i] = a.worker]
        /\ module_output_queues' = [module_output_queues EXCEPT ![w.queue] = a.rest]
        /\ deq' = [deq EXCEPT ![w.queue] = @ \o a.taken]
        /\ UNCHANGED <<pins, published>>
        /\ UNCHANGED <<faults, delivered, cleanup>>
        /\ WorkerFrame

\* async_set_pin returns: the pin has the level; publish is awaited (389-398)
WorkerSetPinDone(i) ==
    LET w == workers[i]
        conf == digital_output_configs[w.cur.output]
        ev == w.trace[Len(w.trace)]
    IN  /\ Runs(w) /\ w.pc = "set_pin"
        /\ pins' = [pins EXCEPT ![<<ev.module, ev.pin>>] = Level(ev.value)]
        /\ workers' = [workers EXCEPT ![i] =
                          [w EXCEPT !.pc = "publish",
                                    !.trace = Append(@, PublishCall(conf, w.cur.payload))]]
        /\ UNCHANGED <<module_output_queues, deq, published>>
        /\ UNCHANGED <<faults, delivered, cleanup>>
        /\ WorkerFrame

\* async_set_pin raises: the exception ends the task
WorkerSetPinFail(i) ==
    LET w == workers[i]
    IN  /\ Runs(w) /\ w.pc = "set_pin"
        /\ faults < MaxFaults
        /\ workers' = [workers EXCEPT ![i] =
                          [w EXCEPT !.pc = "done", !.res = "error", !.cur = NoCmd,
                                    !.trace = <<>>,
                                    !.last = [cmd |-> w.cur, trace |-> w.trace,
                                              outcome |-> "aborted"]]]
        /\ UNCHANGED <<module_output_queues, deq, pins, published>>
        /\ faults' = faults + 1
        /\ UNCHANGED <<delivered, cleanup>>
        /\ WorkerFrame

\* publish returns; the loop goes back to queue.get(), which does not suspend
\* when the queue holds a command
WorkerPublishDone(i) ==
    LET w == workers[i]
        ev == w.trace[Len(w.trace)]
        a == AfterGet([w EXCEPT !.last = [cmd |-> w.cur, trace |-> w.trace,
                                          outcome |-> "done"]])
    IN  /\ Runs(w) /\ w.pc = "publish" /\ connected
        /\ published' = [published EXCEPT ![w.cur.output] = ev.payload]
        /\ workers' = [workers EXCEPT ![i] = a.worker]
        /\ module_output_queues' = [module_output_queues EXCEPT ![w.queue] = a.rest]
        /\ deq' = [deq EXCEPT ![w.queue] = @ \o a.taken]
        /\ UNCHANGED pins
        /\ UNCHANGED <<faults, delivered, cleanup>>
        /\ WorkerFrame

\* publish on a client that has disconnected raises (or never returns)
WorkerPublishFail(i) ==
    LET w == workers[i]
    IN  /\ Runs(w) /\ w.pc = "publish" /\ ~connected
        /\ workers' = [workers EXCEPT ![i] =
                          [w EXCEPT !.pc = "done", !.res = "error", !.cur = NoCmd,
                                    !.trace = <<>>,
                                    !.last = [cmd |-> w.cur, trace |-> w.trace,
                                              outcome |-> "aborted"]]]
        /\ UNCHANGED <<module_output_queues, deq, pins, published>>
        /\ UNCHANGED <<faults, delivered, cleanup>>
        /\ WorkerFrame

\* CancelledError at the worker's suspension point ends the task; a write
\* that was in flight may or may not have reached the pin
WorkerCancelled(i) ==
    LET w == workers[i]
        ev == w.trace[Len(w.trace)]
    IN  /\ Unwinds(w)
        /\ workers' = [workers EXCEPT ![i] =
                          [w EXCEPT !.pc = "done", !.res = "cancelled", !.cancel = FALSE,
                                    !.cur = NoCmd, !.trace = <<>>,
                                    !.last = IF w.cur = NoCmd THEN w.last
                                             ELSE [cmd |-> w.cur, trace |-> w.trace,
                                                   outcome |-> "aborted"]]]
        /\ IF w.pc = "set_pin"
           THEN \E written \in BOOLEAN :
                    pins' = IF written
                            THEN [pins EXCEPT ![<<ev.module, ev.pin>>] = Level(ev.value)]
                            ELSE pins
           ELSE UNCHANGED pins
        /\ UNCHANGED <<module_output_queues, deq, published>>
        /\ UNCHANGED <<faults, delivered, cleanup>>
        /\ WorkerFrame

\* ------------------------------------------------------- set_ms (pulses)
PulseFrame == UNCHANGED <<module_output_queues, workers, poller, rx, reaper,
                          shutdowns, unawaited_tasks, loop_stopped, connected,
                          status, enq, deq, nmsg, logged>>

PulseEnd(p, res) == [p EXCEPT !.pc = "done", !.res = res, !.cancel = FALSE]

\* the payload published with a level (lines 303-307, 322-326)
PulsePayload(output_config, value) ==
    IF value THEN output_config.on_payload ELSE output_config.off_payload

\* first run of the task: parse the duration, start the first write (289-302)
PulseStart(i) ==
    LET p == pulses[i]
        conf == digital_output_configs[p.output]
    IN  /\ Runs(p) /\ p.pc = "new"
        /\ pulses' = [pulses EXCEPT ![i] =
              IF ~FloatOk(p.payload) THEN PulseEnd(p, "ok")
              ELSE [p EXCEPT !.pc = "write1", !.ms = float_ms(p.payload),
                             !.trace = <<SetPinCall(conf.module, conf, p.desired)>>]]
        /\ UNCHANGED <<pins, published>>
        /\ UNCHANGED <<faults, delivered, cleanup>>
        /\ PulseFrame

\* async_set_pin returns: publish of the matching payload is awaited
PulseSetPinDone(i) ==
    LET p == pulses[i]
        conf == digital_output_configs[p.output]
        ev == p.trace[Len(p.trace)]
        value == IF p.pc = "write1" THEN p.desired ELSE ~p.desired
    IN  /\ Runs(p) /\ p.pc \in {"write1", "write2"}
        /\ pins' = [pins EXCEPT ![<<ev.module, ev.pin>>] = Level(ev.value)]
        /\ pulses' = [pulses EXCEPT ![i] =
              [p EXCEPT !.pc = IF p.pc = "write1" THEN "pub1" ELSE "pub2",
                        !.trace = Append(@, PublishCall(conf, PulsePayload(conf, value)))]]
        /\ UNCHANGED published
        /\ UNCHANGED <<faults, delivered, cleanup>>
        /\ PulseFrame

\* async_set_pin raises: the exception ends the task
PulseSetPinFail(i) ==
    LET p == pulses[i]
    IN  /\ Runs(p) /\ p.pc \in {"write1", "write2"}
        /\ faults < MaxFaults
        /\ pulses' = [pulses EXCEPT ![i] = PulseEnd(p, "error")]
        /\ UNCHANGED <<pins, published>>
        /\ faults' = faults + 1
        /\ UNCHANGED <<delivered, cleanup>>
        /\ PulseFrame

\* publish returns: after the first one asyncio.sleep(secs) is awaited, after
\* the second one the task is finished
PulsePublishDone(i) ==
    LET p == pulses[i]
        ev == p.trace[Len(p.trace)]
    IN  /\ Runs(p) /\ p.pc \in {"pub1", "pub2"} /\ connected
        /\ published' = [published EXCEPT ![p.output] = ev.payload]
        /\ pulses' = [pulses EXCEPT ![i] =
              IF p.pc = "pub1"
              THEN [p EXCEPT !.pc = "sleep", !.elapsed = 0,
                             !.trace = Append(@, SleepEv(p.ms))]
              ELSE PulseEnd(p, "ok")]
        /\ UNCHANGED pins
        /\ UNCHANGED <<faults, delivered, cleanup>>
        /\ PulseFrame

\* publish on a client that has disconnected raises (or never returns)
PulsePublishFail(i) ==
    LET p == pulses[i]
    IN  /\ Runs(p) /\ p.pc \in {"pub1", "pub2"} /\ ~connected
        /\ pulses' = [pulses EXCEPT ![i] = PulseEnd(p, "error")]
        /\ UNCHANGED <<pins, published>>
        /\ UNCHANGED <<faults, delivered, cleanup>>
        /\ PulseFrame

\* one millisecond passes for every pulse whose sleep has not run out
Tick ==
    /\ ~loop_stopped
    /\ \E i \in DOMAIN pulses :
          pulses[i].res = "pending" /\ pulses[i].pc = "sleep"
          /\ pulses[i].elapsed < pulses[i].ms
    /\ pulses' = [i \in DOMAIN pulses |->
          IF pulses[i].res = "pending" /\ pulses[i].pc = "sleep"
             /\ pulses[i].elapsed < pulses[i].ms
          THEN [pulses[i] EXCEPT !.elapsed = @ + 1]
          ELSE pulses[i]]
    /\ UNCHANGED <<pins, published>>
    /\ UNCHANGED <<faults, delivered, cleanup>>
    /\ PulseFrame

\* asyncio.sleep(secs) of pulse p can return: secs have passed
SleepOver_now(p) == TRUE

SleepOver(p) == p.elapsed >= p.ms

\* asyncio.sleep(secs) returns once secs have passed: the second write is
\* started (lines 314-321)
PulseWake(i) ==
    LET p == pulses[i]
        conf == digital_output_configs[p.output]
    IN  /\ Runs(p) /\ p.pc = "sleep"
        /\ SleepOver(p)
        /\ pulses' = [pulses EXCEPT ![i] =
              [p EXCEPT !.pc = "write2",
                        !.trace = Append(@, SetPinCall(conf.module, conf, ~p.desired))]]
        /\ UNCHANGED <<pins, published>>
        /\ UNCHANGED <<faults, delivered, cleanup>>
        /\ PulseFrame

\* CancelledError at the pulse's suspension point ends the task
PulseCancelled(i) ==
    LET p == pulses[i]
        ev == p.trace[Len(p.trace)]
    IN  /\ Unwinds(p)
        /\ pulses' = [pulses EXCEPT ![i] = PulseEnd(p, "cancelled")]
        /\ IF p.pc \in {"write1", "write2"}
           THEN \E written \in BOOLEAN :
                    pins' = IF written
                            THEN [pins EXCEPT ![<<ev.module, ev.pin>>] = Level(ev.value)]
                            ELSE pins
           ELSE UNCHANGED pins
        /\ UNCHANGED published
        /\ UNCHANGED <<faults, delivered, cleanup>>
        /\ PulseFrame

\* ------------------------------------------------------------- poll_sensor
OtherFrame == UNCHANGED <<module_output_queues, workers, pulses, rx, connected,
                          status, pins, published, enq, deq, nmsg>>

\* one round of the loop: async_get_value returns, the value is fired,
\* sleep(interval) returns (lines 168-176)
PollerRound ==
    /\ Runs(poller) /\ poller.pc = "loop"
    /\ poller' = poller
    /\ UNCHANGED <<reaper, shutdowns, unawaited_tasks, loop_stopped, logged, faults, delivered, cleanup>>
    /\ OtherFrame

PollerCancelled ==
    /\ Unwinds(poller)
    /\ poller' = [poller EXCEPT !.pc = "done", !.res = "cancelled", !.cancel = FALSE]
    /\ UNCHANGED <<reaper, shutdowns, unawaited_tasks, loop_stopped, logged, faults, delivered, cleanup>>
    /\ OtherFrame

\* ------------------------------------------------------------ task lookup
Task(id) ==
    CASE id[1] = "worker" -> workers[id[2]]
      [] id[1] = "pulse" -> pulses[id[2]]
      [] id[1] = "shutdown" -> shutdowns[id[2]]
      [] id[1] = "poller" -> poller
      [] id[1] = "rx" -> rx
      [] OTHER -> reaper

\* asyncio.Task.all_tasks(loop=self.loop)
AllTasks ==
    {WorkerId(i) : i \in DOMAIN workers} \cup {PulseId(i) : i \in DOMAIN pulses}
    \cup {ShutdownId(i) : i \in DOMAIN shutdowns} \cup {PollerId, RxId, ReaperId}

\* self.tasks
PrimaryTasks == {RxId, ReaperId}

\* t.cancel(): requests cancellation of a task that is not done
CancelIf(t, hit) == IF hit /\ t.res = "pending" THEN [t EXCEPT !.cancel = TRUE] ELSE t

\* `except Exception` of the cleanup loops: is the raised exception caught
\* (lines 431-435, 438-442)
CleanupCatches_none(exc) == FALSE

CleanupCatches(exc) == exc = "error"

\* ------------------------------------------------- _remove_finished_tasks
RECURSIVE SelectSeq2(_, _)
\* the elements of list s whose task is (keep = FALSE: not) done, in order
SelectSeq2(s, keep) ==
    IF s = <<>> THEN <<>>
    ELSE IF Done(Task(Head(s))) = keep
         THEN <<Head(s)>> \o SelectSeq2(Tail(s), keep)
         ELSE SelectSeq2(Tail(s), keep)

\* `except Exception` around `await task`: is the exception of a finished task
\* caught; a CancelledError is no Exception since Python 3.8 (lines 369-372)
ReaperCatches_none(res) == FALSE

ReaperCatches(res) == res = "error"

RECURSIVE AwaitAll(_)
\* the for loop over the finished tasks: the tasks whose exception is caught and
\* logged, in order, and whether an exception that is not caught leaves the loop
\* (lines 368-372)
AwaitAll(s) ==
    IF s = <<>> THEN [log |-> <<>>, raised |-> ""]
    ELSE LET res == Task(Head(s)).res
         IN  IF res = "ok" THEN AwaitAll(Tail(s))
             ELSE IF ReaperCatches(res)
                  THEN LET rest == AwaitAll(Tail(s))
                       IN  [rest EXCEPT !.log = <<Head(s)>> \o @]
                  ELSE [log |-> <<>>, raised |-> res]

\* list(filter(lambda x: not x.done(), ...)): the tasks of the list that are
\* not done, in order (lines 373-375)
not_done_all(s) == s

not_done(s) == SelectSeq2(s, FALSE)

\* sleep(1) returns: finished tasks are awaited, their exceptions logged, and
\* dropped from the list (lines 365-375)
ReaperWake ==
    LET finished_tasks == SelectSeq2(unawaited_tasks, TRUE)
        awaited == AwaitAll(finished_tasks)
    IN  /\ Runs(reaper) /\ reaper.pc = "sleep"
        /\ IF finished_tasks = <<>>
           THEN UNCHANGED <<logged, unawaited_tasks, reaper>>
           ELSE /\ logged' = logged \o awaited.log
                /\ IF awaited.raised = ""
                   THEN /\ unawaited_tasks' = not_done(unawaited_tasks)
                        /\ UNCHANGED reaper
                   ELSE /\ reaper' = [reaper EXCEPT !.pc = "done",
                                                    !.res = awaited.raised]
                        /\ UNCHANGED unawaited_tasks
        /\ UNCHANGED <<poller, shutdowns, loop_stopped, faults, delivered, cleanup>>
        /\ OtherFrame

ReaperCancelled ==
    /\ Unwinds(reaper)
    /\ reaper' = [reaper EXCEPT !.pc = "done", !.res = "cancelled", !.cancel = FALSE]
    /\ UNCHANGED <<poller, shutdowns, unawaited_tasks, loop_stopped, logged, faults, delivered, cleanup>>
    /\ OtherFrame

\* ---------------------------------------------------------------- shutdown
ShutdownFrame == UNCHANGED <<module_output_queues, unawaited_tasks, connected,
                             status, pins, published, enq, deq, nmsg, logged, faults, delivered, cleanup>>

\* a termination signal: the handler creates a shutdown task (lines 403-406)
Signal ==
    /\ ~loop_stopped
    /\ Len(shutdowns) < MaxSignals
    /\ shutdowns' = Append(shutdowns,
          [pc |-> "new", cancel |-> FALSE, res |-> "pending", all_done |-> FALSE,
           tasks |-> {}])
    /\ UNCHANGED <<workers, pulses, poller, rx, reaper, loop_stopped>>
    /\ ShutdownFrame

\* first run of shutdown: cancel self.tasks, first pass of the wait loop
\* (lines 447-456)
ShutdownStart(i) ==
    LET s == shutdowns[i]
    IN  /\ Runs(s) /\ s.pc = "new"
        /\ rx' = CancelIf(rx, RxId \in PrimaryTasks)
        /\ reaper' = CancelIf(reaper, ReaperId \in PrimaryTasks)
        /\ shutdowns' = [shutdowns EXCEPT ![i] =
              [s EXCEPT !.pc = "wait1",
                        !.all_done = \A t \in PrimaryTasks : Done(Task(t))]]
        /\ UNCHANGED <<workers, pulses, poller, loop_stopped>>
        /\ ShutdownFrame

\* the tasks shutdown i cancels once the primary tasks are done (458-463)
Remaining(i) == {t \in AllTasks : ~Done(Task(t)) /\ t /= ShutdownId(i)}

\* sleep(0.1) of the first wait loop returns: another pass, or on all_done
\* the remaining tasks are cancelled and the second wait loop is entered
ShutdownWake1(i) ==
    LET s == shutdowns[i]
        tasks == Remaining(i)
    IN  /\ Runs(s) /\ s.pc = "wait1"
        /\ IF ~s.all_done
           THEN /\ shutdowns' = [shutdowns EXCEPT ![i] =
                      [s EXCEPT !.all_done = \A t \in PrimaryTasks : Done(Task(t))]]
                /\ UNCHANGED <<workers, pulses, poller, rx, reaper>>
           ELSE /\ workers' = [j \in DOMAIN workers |->
                                  CancelIf(workers[j], WorkerId(j) \in tasks)]
                /\ pulses' = [j \in DOMAIN pulses |->
                                  CancelIf(pulses[j], PulseId(j) \in tasks)]
                /\ poller' = CancelIf(poller, PollerId \in tasks)
                /\ rx' = CancelIf(rx, RxId \in tasks)
                /\ reaper' = CancelIf(reaper, ReaperId \in tasks)
                /\ shutdowns' = [j \in DOMAIN shutdowns |->
                      IF j = i
                      THEN [s EXCEPT !.pc = "wait2", !.tasks = tasks,
                                     !.all_done = (tasks = {})]
                      ELSE CancelIf(shutdowns[j], ShutdownId(j) \in tasks)]
        /\ UNCHANGED loop_stopped
        /\ ShutdownFrame

\* sleep(0.1) of the second wait loop returns: another pass, or on all_done
\* loop.stop() (lines 468-474)
ShutdownWake2(i) ==
    LET s == shutdowns[i]
    IN  /\ Runs(s) /\ s.pc = "wait2"
        /\ IF ~s.all_done
           THEN /\ shutdowns' = [shutdowns EXCEPT ![i] =
                      [s EXCEPT !.all_done = \A t \in s.tasks : Done(Task(t))]]
                /\ UNCHANGED loop_stopped
           ELSE /\ loop_stopped' = TRUE
                /\ shutdowns' = [shutdowns EXCEPT ![i] =
                      [s EXCEPT !.pc = "done", !.res = "ok", !.tasks = {}]]
        /\ UNCHANGED <<workers, pulses, poller, rx, reaper>>
        /\ ShutdownFrame

\* CancelledError at the sleep of a shutdown task ends it
ShutdownCancelled(i) ==
    LET s == shutdowns[i]
    IN  /\ Unwinds(s)
        /\ shutdowns' = [shutdowns EXCEPT ![i] =
              [s EXCEPT !.pc = "done", !.res = "cancelled", !.cancel = FALSE,
                        !.tasks = {}, !.all_done = FALSE]]
        /\ UNCHANGED <<workers, pulses, poller, rx, reaper, loop_stopped>>
        /\ ShutdownFrame

\* ------------------------------------------------------------ run(), finally
RECURSIVE cleanup_modules(_, _, _)
\* the two cleanup loops over the modules in mods, those in fails raising: each
\* call and each call that raised is recorded, a caught exception is logged and
\* the loop goes on, an exception that is not caught leaves run() (lines 430-443)
cleanup_modules(mods, fails, acc) ==
    IF mods = <<>> THEN [acc EXCEPT !.done = TRUE]
    ELSE LET m == Head(mods)
             called == [acc EXCEPT !.cleaned = Append(@, m)]
             failed == [called EXCEPT !.failed = Append(@, m)]
         IN  IF m \notin fails THEN cleanup_modules(Tail(mods), fails, called)
             ELSE IF CleanupCatches("error")
                  THEN cleanup_modules(Tail(mods), fails,
                                       [failed EXCEPT !.log = Append(@, m)])
                  ELSE [failed EXCEPT !.done = TRUE, !.raised = TRUE]

\* run_forever() has returned: loop.close(), then cleanup() of every GPIO module
\* and of every sensor module; the block has no await and runs in one piece
\* (lines 425-443)
RunFinally ==
    /\ loop_stopped /\ ~cleanup.done
    /\ \E fails \in SUBSET ModuleNames :
          cleanup' = cleanup_modules(gpio_modules \o sensor_modules, fails, cleanup)
    /\ UNCHANGED <<module_output_queues, workers, pulses, poller, rx, reaper,
                   shutdowns, unawaited_tasks, loop_stopped, connected, status, pins,
                   published, enq, deq, nmsg, logged, faults, delivered>>

\* ------------------------------------------------------------ specification
Next ==
    \/ RxMessage
    \/ RxFinPublishDone
    \/ RxFinDisconnectDone
    \/ RxCancelled
    \/ \E i \in DOMAIN workers : WorkerGet(i)
    \/ \E i \in DOMAIN workers : WorkerSetPinDone(i)
    \/ \E i \in DOMAIN workers : WorkerSetPinFail(i)
    \/ \E i \in DOMAIN workers : WorkerPublishDone(i)
    \/ \E i \in DOMAIN workers : WorkerPublishFail(i)
    \/ \E i \in DOMAIN workers : WorkerCancelled(i)
    \/ \E i \in DOMAIN pulses : PulseStart(i)
    \/ \E i \in DOMAIN pulses : PulseSetPinDone(i)
    \/ \E i \in DOMAIN pulses : PulseSetPinFail(i)
    \/ \E i \in DOMAIN pulses : PulsePublishDone(i)
    \/ \E i \in DOMAIN pulses : PulsePublishFail(i)
    \/ \E i \in DOMAIN pulses : PulseWake(i)
    \/ \E i \in DOMAIN pulses : PulseCancelled(i)
    \/ Tick
    \/ PollerRound
    \/ PollerCancelled
    \/ ReaperWake
    \/ ReaperCancelled
    \/ Signal
    \/ \E i \in DOMAIN shutdowns : ShutdownStart(i)
    \/ \E i \in DOMAIN shutdowns : ShutdownWake1(i)
    \/ \E i \in DOMAIN shutdowns : ShutdownWake2(i)
    \/ \E i \in DOMAIN shutdowns : ShutdownCancelled(i)
    \/ RunFinally

Spec == Init /\ [][Next]_vars

\* the event loop runs every callback that is ready: the sleep(1) of the reaper
\* returns, and its scan runs, as long as the reaper is neither cancelled nor
\* the loop stopped (line 364)
FairSpec == Spec /\ WF_vars(ReaperWake)

\* ------------------------------------------------------------- properties
IsPrefix(a, b) == Len(a) <= Len(b) /\ a = SubSeq(b, 1, Len(a))

\* set commands being executed by the workers, per module
Executing(m) == {i \in DOMAIN workers :
                    workers[i].cur /= NoCmd /\ workers[i].cur.module = m}

\* C1: in every reachable state at most one "set" command of a given module
\* is being executed (dequeued, its write and confirmation publish not yet
\* complete) by the digital_output_loop tasks.
C1_SetSerializedPerModule ==
    \A m \in gpio_module_names : Cardinality(Executing(m)) <= 1

\* C1 (second half): set commands of two different modules are being
\* executed at the same time.
C1_Witness ==
    \E i, j \in DOMAIN workers :
        /\ workers[i].cur /= NoCmd /\ workers[j].cur /= NoCmd
        /\ workers[i].cur.module /= workers[j].cur.module

\* what the claim expects of a valid set command: one write of the level
\* (payload == on_payload) XOR inverted on the output's pin, then one publish
\* of the same payload on P/output/<name> with the output's retain flag
ExpectedSet(cmd) ==
    LET conf == digital_output_configs[cmd.output]
        on == cmd.payload = conf.on_payload
        level == (on /\ ~conf.inverted) \/ (~on /\ conf.inverted)
    IN  << SetPinEv(conf.module, conf.pin, level),
           PublishEv(<<"P", "output", conf.name>>, cmd.payload, conf.retain) >>

IsValidSet(cmd) ==
    cmd.payload \in {digital_output_configs[cmd.output].on_payload,
                     digital_output_configs[cmd.output].off_payload}

\* C2: a set command with a valid payload that the worker has served to the
\* end made exactly the calls ExpectedSet, in that order; while it is served,
\* or when the worker ended in it (exception, cancellation), the calls made
\* are the write alone or the write followed by the publish.
C2_SetWriteThenPublish ==
    \A i \in DOMAIN workers :
        LET w == workers[i]
        IN  /\ (w.cur /= NoCmd /\ IsValidSet(w.cur)) =>
                  /\ w.pc = "set_pin" => w.trace = SubSeq(ExpectedSet(w.cur), 1, 1)
                  /\ w.pc = "publish" => w.trace = ExpectedSet(w.cur)
            /\ (w.last.outcome = "done" /\ IsValidSet(w.last.cmd)) =>
                  w.last.trace = ExpectedSet(w.last.cmd)
            /\ (w.last.outcome = "aborted" /\ IsValidSet(w.last.cmd)) =>
                  /\ w.last.trace /= <<>>
                  /\ IsPrefix(w.last.trace, ExpectedSet(w.last.cmd))

\* C2: a valid command on the inverted output o2 has been served to the end,
\* and one on a plain output too.
C2_Witness ==
    /\ \E i \in DOMAIN workers :
          /\ workers[i].last.outcome = "done"
          /\ digital_output_configs[workers[i].last.cmd.output].inverted
    /\ \E i \in DOMAIN workers :
          /\ workers[i].last.outcome = "done"
          /\ ~digital_output_configs[workers[i].last.cmd.output].inverted

\* C3: a set command whose payload is neither the on- nor the off-payload of
\* its output is never executed: when the worker has taken it, no call was
\* made for it, and the worker was not ended by an exception.
C3_InvalidPayloadRejected ==
    \A i \in DOMAIN workers :
        LET w == workers[i]
        IN  /\ w.cur /= NoCmd => IsValidSet(w.cur)
            /\ (w.last.cmd /= NoCmd /\ ~IsValidSet(w.last.cmd)) =>
                  /\ w.last.outcome = "rejected"
                  /\ w.last.trace = <<>>
                  /\ w.res /= "error"

\* C3: after rejecting a command the worker is executing the next one.
C3_Witness ==
    \E i \in DOMAIN workers :
        /\ workers[i].last.outcome = "rejected"
        /\ workers[i].cur /= NoCmd
        /\ workers[i].cur.id > workers[i].last.cmd.id

\* what the claim expects of a pulse with a valid duration
ExpectedPulse(p) ==
    LET conf == digital_output_configs[p.topic[3]]
        on == p.topic[4] = "set_on_ms"
        level == (on /\ ~conf.inverted) \/ (~on /\ conf.inverted)
        first == IF on THEN conf.on_payload ELSE conf.off_payload
        second == IF on THEN conf.off_payload ELSE conf.on_payload
    IN  << SetPinEv(conf.module, conf.pin, level),
           PublishEv(<<"P", "output", conf.name>>, first, conf.retain),
           SleepEv(float_ms(p.payload)),
           SetPinEv(conf.module, conf.pin, ~level),
           PublishEv(<<"P", "output", conf.name>>, second, conf.retain) >>

\* C4: the calls a pulse with a valid duration has made are a prefix of
\* write(level), publish(payload), sleep(duration), write(opposite level),
\* publish(opposite payload); a pulse that finished normally made all five;
\* the second write is never called before the duration has passed.
C4_PulseSequence ==
    \A i \in DOMAIN pulses :
        LET p == pulses[i]
        IN  FloatOk(p.payload) =>
              /\ IsPrefix(p.trace, ExpectedPulse(p))
              /\ p.res = "ok" => p.trace = ExpectedPulse(p)
              /\ Len(p.trace) >= 4 => p.elapsed >= float_ms(p.payload)
              /\ p.pc = "write1" => Len(p.trace) = 1
              /\ p.pc = "pub1" => Len(p.trace) = 2
              /\ p.pc = "sleep" => Len(p.trace) = 3
              /\ p.pc = "write2" => Len(p.trace) = 4
              /\ p.pc = "pub2" => Len(p.trace) = 5

\* C4: a set_on_ms pulse and a set_off_ms pulse with positive durations have
\* both run to the end.
C4_Witness ==
    \E i, j \in DOMAIN pulses :
        /\ pulses[i].res = "ok" /\ pulses[i].topic[4] = "set_on_ms"
        /\ pulses[i].ms > 0 /\ Len(pulses[i].trace) = 5
        /\ pulses[j].res = "ok" /\ pulses[j].topic[4] = "set_off_ms"
        /\ Len(pulses[j].trace) = 5

\* C5: when the receive loop was cancelled by shutdown and its task reports
\* done, the "stopped" status has been published and the client disconnected.
C5_FinalizerCompletes ==
    (Done(rx) /\ rx.why = "cancelled") =>
        (status = status_payload_stopped /\ ~connected)

\* C6: when loop.stop() has been called, no task is still pending.
C6_NoTaskPendingAtStop ==
    loop_stopped => \A t \in AllTasks : Done(Task(t))

\* C7: whatever the number of signals, when the scheduler has been stopped
\* the outcome is that of one signal: "stopped" published, disconnected,
\* every task done (the receive loop having run until the shutdown).
C7_ShutdownIdempotent ==
    (loop_stopped /\ rx.why /= "error") =>
        /\ status = status_payload_stopped
        /\ ~connected
        /\ \A t \in AllTasks : Done(Task(t))

\* C8: per queue, commands are taken in the order they were put, each at most
\* once and none skipped, and only the command taken last can be in
\* execution: every earlier one has been finished.
C8_QueueFifo ==
    \A k \in QueueKeys :
        /\ deq[k] \o Ids(module_output_queues[k]) = enq[k]
        /\ \A a, b \in DOMAIN enq[k] : a < b => enq[k][a] < enq[k][b]
        /\ \A i \in DOMAIN workers :
              (workers[i].queue = k /\ workers[i].cur /= NoCmd) =>
                  (deq[k] /= <<>> /\ workers[i].cur.id = deq[k][Len(deq[k])])

\* C8: two commands of one queue have been taken, the second after the first
\* was served to the end.
C8_Witness ==
    \E i \in DOMAIN workers :
        /\ Len(deq[workers[i].queue]) >= 2
        /\ workers[i].last.outcome = "done"
        /\ workers[i].cur /= NoCmd

\* calls of async_set_pin in flight on module m: by workers and by pulses
WritesInFlight(m) ==
    Cardinality({i \in DOMAIN workers :
                    workers[i].pc = "set_pin" /\ workers[i].cur.module = m})
    + Cardinality({i \in DOMAIN pulses :
                    /\ pulses[i].pc \in {"write1", "write2"}
                    /\ digital_output_configs[pulses[i].output].module = m})

\* C9: at any time at most one hardware write is in flight per module.
C9_OneWriteInFlightPerModule ==
    \A m \in gpio_module_names : WritesInFlight(m) <= 1

\* C10: handling an inbound message never ends the receive loop: the loop is
\* left (and the finalizer run) by cancellation only.
C10_HandlingNeverEndsRxLoop ==
    rx.why /= "error"

\* C11: a set_on_ms / set_off_ms message whose payload is no number (here the
\* payloads "ON" and "OFF") causes no hardware write and no publish: its pulse
\* task makes no call at all, never gets beyond its first step, and ends
\* normally, so the reaper has no exception of it to log; the failure stays
\* inside the pulse task, whose end is the only thing that can follow its start.
C11_UnparsableDurationRejected ==
    \A i \in DOMAIN pulses :
        LET p == pulses[i]
        IN  p.payload \in {STR_ON, STR_OFF} =>
              /\ p.trace = <<>>
              /\ p.pc \in {"new", "done"}
              /\ p.res \in {"pending", "ok", "cancelled"}
              /\ (p.res = "cancelled" => shutdowns /= <<>>)
              /\ \A j \in DOMAIN logged : logged[j] /= PulseId(i)

\* a pulse with the payload "ON" has ended normally while the receive loop is
\* still receiving and no pin was written and nothing was published
C11_Witness ==
    /\ \E i \in DOMAIN pulses :
          /\ pulses[i].payload = STR_ON
          /\ pulses[i].res = "ok"
          /\ pulses[i].trace = <<>>
    /\ rx.pc = "deliver" /\ rx.res = "pending"
    /\ \A k \in PinKeys : pins[k] = "unset"
    /\ \A n \in OutputNames : published[n] = <<>>

\* C12: the failure of a task is contained.  The scheduler is stopped only by
\* the shutdown protocol: whenever it has been stopped, a termination signal was
\* received and a shutdown task ran to its loop.stop().  No task is cancelled,
\* and no cancellation is requested, unless a signal was received.  The reaper
\* is never ended by the exception of a task it awaits: it ends by cancellation
\* only.
C12_TaskFailureIsContained ==
    /\ loop_stopped => \E i \in DOMAIN shutdowns : shutdowns[i].res = "ok"
    /\ shutdowns = <<>> =>
          \A id \in AllTasks : ~Task(id).cancel /\ Task(id).res /= "cancelled"
    /\ reaper.res \in {"pending", "cancelled"}
    /\ reaper.res = "cancelled" => shutdowns /= <<>>

\* a task has failed and the reaper has logged it, while no signal was received:
\* the scheduler runs, the reaper and the receive loop are still pending
C12_Witness ==
    /\ logged /= <<>>
    /\ \E id \in AllTasks : Task(id).res = "error"
    /\ shutdowns = <<>> /\ ~loop_stopped
    /\ reaper.res = "pending" /\ rx.res = "pending" /\ poller.res = "pending"

\* topic is P/output/<name>/<suffix> for a configured output <name> and a suffix
\* of the set sfx
IsOutputTopic(topic, sfx) ==
    /\ Len(topic) = 4
    /\ topic[1] = topic_prefix /\ topic[2] = OUTPUT_TOPIC
    /\ topic[3] \in OutputNames
    /\ topic[4] \in sfx

\* what the handling of the message just delivered did to the queues, the pulse
\* tasks and the list of tracked tasks
C13_Dispatch ==
    LET topic == delivered'.topic
        payload == decode_utf8(delivered'.data)
        name == topic[3]
        conf == digital_output_configs[name]
        n == Len(pulses)
    IN  /\ IsOutputTopic(topic, {SET_TOPIC}) =>
              /\ module_output_queues' =
                    [module_output_queues EXCEPT ![conf.module] =
                        Append(@, [id |-> nmsg', module |-> conf.module,
                                   output |-> name, payload |-> payload])]
              /\ pulses' = pulses
              /\ unawaited_tasks' = unawaited_tasks
        /\ IsOutputTopic(topic, {SET_ON_MS_TOPIC, SET_OFF_MS_TOPIC}) =>
              /\ Len(pulses') = n + 1
              /\ SubSeq(pulses', 1, n) = pulses
              /\ pulses'[n + 1].output = name
              /\ pulses'[n + 1].payload = payload
              /\ pulses'[n + 1].desired = (topic[4] = SET_ON_MS_TOPIC)
              /\ pulses'[n + 1].res = "pending" /\ pulses'[n + 1].trace = <<>>
              /\ unawaited_tasks' = Append(unawaited_tasks, PulseId(n + 1))
              /\ module_output_queues' = module_output_queues
        /\ topic[Len(topic)] \notin {SET_TOPIC, SET_ON_MS_TOPIC, SET_OFF_MS_TOPIC} =>
              /\ module_output_queues' = module_output_queues
              /\ pulses' = pulses
              /\ unawaited_tasks' = unawaited_tasks

\* C13: every step in which the router handles a delivered message with a
\* decodable payload does exactly this: on P/output/<name>/set of a configured
\* output one command (module, output, payload) is appended to the queue of the
\* module that owns the output, and no task is created; on .../set_on_ms and
\* .../set_off_ms one pulse task is created, with the desired level on for
\* set_on_ms and off for set_off_ms, and appended to the tracked tasks in the
\* same step, and every queue is left as it was; on a topic with none of the
\* three suffixes no queue changes and no task is created.
C13_RouterDispatch ==
    [][(nmsg' = nmsg + 1 /\ DecodeOk(delivered'.data)) => C13_Dispatch]_vars

\* a set command is waiting in the queue of m1 and the message delivered last
\* was a set_on_ms, whose pulse task is tracked and has not run yet
C13_Witness ==
    /\ module_output_queues["m1"] /= <<>>
    /\ IsOutputTopic(delivered.topic, {SET_ON_MS_TOPIC})
    /\ Len(pulses) = 1 /\ pulses[1].pc = "new" /\ pulses[1].desired
    /\ unawaited_tasks[Len(unawaited_tasks)] = PulseId(1)

\* C14: every command put on a queue is eventually taken and executed exactly
\* once, whatever the earlier hardware writes and publishes did, as long as no
\* termination signal was received.  What a finite run can show of it: no
\* command is taken twice, and while no signal was received a queue that holds
\* a command has a worker that is still running and so can take it.
C14_EveryCommandExecuted ==
    /\ \A k \in DOMAIN deq :
          \A i, j \in DOMAIN deq[k] : deq[k][i] = deq[k][j] => i = j
    /\ shutdowns = <<>> =>
          \A i \in DOMAIN workers :
              module_output_queues[workers[i].queue] /= <<>> =>
                  workers[i].res = "pending"

\* a task other than the two primary tasks for which a cancellation has been
\* requested or delivered
CancelledNonPrimary ==
    {id \in AllTasks \ PrimaryTasks : Task(id).cancel \/ Task(id).res = "cancelled"}

\* the order of the two phases alone: no task other than the primary tasks is
\* cancelled before both primary tasks report done
PrimariesDoneFirst ==
    CancelledNonPrimary /= {} => Done(rx) /\ Done(reaper)

\* C15: shutdown cancels the two primary tasks first and cancels no other task
\* before both report done; hence, when any other task is cancelled, the
\* receive loop has published the "stopped" status and has disconnected.
C15_TwoPhaseOrder ==
    /\ PrimariesDoneFirst
    /\ CancelledNonPrimary /= {} =>
          status = status_payload_stopped /\ ~connected

\* the tasks appended to unawaited_tasks: workers, poller and pulses
TrackedTasks ==
    {WorkerId(i) : i \in DOMAIN workers} \cup {PulseId(i) : i \in DOMAIN pulses}
    \cup {PollerId}

\* the number of positions of sequence s that hold x
Count(s, x) == Cardinality({j \in DOMAIN s : s[j] = x})

\* a tracked task is in the list exactly until a scan finds it done: a task
\* that is not done is in the list (once), so none is removed unfinished and
\* none registered during a scan is lost; a task no longer in the list that
\* ended with an error is in the log exactly once; the log holds only failed
\* tasks that have been removed
C16_Tracked ==
    \A id \in TrackedTasks :
        /\ Count(unawaited_tasks, id) <= 1
        /\ ~Done(Task(id)) => Count(unawaited_tasks, id) = 1
        /\ Count(logged, id) =
              (IF Task(id).res = "error" /\ Count(unawaited_tasks, id) = 0
               THEN 1 ELSE 0)

\* a scan of the reaper (the only step that logs or shortens the list) leaves
\* no finished task in the list
C16_Scan ==
    (logged' /= logged \/ Len(unawaited_tasks') < Len(unawaited_tasks)) =>
        \A j \in DOMAIN unawaited_tasks' : ~Done(Task(unawaited_tasks'[j]))

\* the list holds a task that is done
HasFinished == \E j \in DOMAIN unawaited_tasks : Done(Task(unawaited_tasks[j]))

\* when the list holds finished tasks, a state follows in which all of them
\* have been removed, unless the reaper stops running
C16_Removed == HasFinished ~> (~HasFinished \/ ~Runs(reaper))

\* C16: while the reaper runs, every finished tracked task is eventually
\* removed from the list, and each scan removes all that are finished; a task
\* that ended with an error is logged exactly once before it is removed; a task
\* that is not finished is never removed; no task that is registered while the
\* reaper scans is lost.
C16_Reaping == []C16_Tracked /\ [][C16_Scan]_vars /\ C16_Removed

\* the reaper has logged and removed a failed worker while the pulse task that
\* was registered later is still tracked and pending
C16_Witness ==
    /\ \E i \in DOMAIN workers :
          /\ workers[i].res = "error"
          /\ Count(logged, WorkerId(i)) = 1
          /\ Count(unawaited_tasks, WorkerId(i)) = 0
    /\ \E i \in DOMAIN pulses :
          /\ ~Done(pulses[i])
          /\ Count(unawaited_tasks, PulseId(i)) = 1
    /\ reaper.res = "pending"

\* the modules that own at least one configured output
OwningModules == {digital_outputs[i].module : i \in DOMAIN digital_outputs}

\* the worker tasks created for the queue of module m
WorkersOf(m) == {i \in DOMAIN workers : workers[i].queue = m}

\* the structure built by the initialization alone: one queue and one worker
\* task per module that owns an output, none for a module without output
OneQueueOneWorkerTask ==
    /\ DOMAIN module_output_queues = OwningModules
    /\ \A m \in gpio_module_names :
          Cardinality(WorkersOf(m)) = (IF m \in OwningModules THEN 1 ELSE 0)

\* C17: after initialization and before shutdown (no termination signal yet)
\* every module that owns at least one output has exactly one queue and exactly
\* one worker task that is draining it, i.e. a worker task of that queue that has
\* not ended; a module without any output has neither queue nor worker.
C17_OneQueueOneWorker ==
    /\ OneQueueOneWorkerTask
    /\ shutdowns = <<>> =>
          \A m \in OwningModules :
              Cardinality({i \in WorkersOf(m) : ~Done(workers[i])}) = 1

\* C18: when the scheduler has stopped and run() has left its finally block,
\* cleanup has been called exactly once on every GPIO module and on every
\* sensor module, whichever of the calls failed; every failed call is in the
\* log, once, and no exception has left the block.  Before the scheduler stops
\* no cleanup is called.
C18_CleanupAllModules ==
    /\ cleanup.done =>
          /\ loop_stopped
          /\ ~cleanup.raised
          /\ \A m \in ModuleNames : Count(cleanup.cleaned, m) = 1
          /\ Len(cleanup.cleaned) = Cardinality(ModuleNames)
          /\ cleanup.log = cleanup.failed
    /\ ~cleanup.done => cleanup = NoCleanup

\* the cleanup of the first GPIO module and of the sensor module failed and
\* were logged, and the modules after the first one were still cleaned up
C18_Witness ==
    /\ cleanup.done
    /\ cleanup.failed = <<"m1", "s1">>
    /\ cleanup.log = <<"m1", "s1">>
    /\ cleanup.cleaned = <<"m1", "m2", "m3", "s1">>

\* a set command or a pulse for output o has started and has not finished
InProgress(o) ==
    \/ \E i \in DOMAIN workers : workers[i].cur /= NoCmd /\ workers[i].cur.output = o
    \/ \E i \in DOMAIN pulses : pulses[i].output = o /\ ~Done(pulses[i])

\* the payload last published for output o is the one that stands for the level
\* last written to its pin (nothing published if nothing was written)
PublishedMatchesPin(o) ==
    LET conf == digital_output_configs[o]
        level == pins[<<conf.module, conf.pin>>]
    IN  IF level = "unset" THEN published[o] = <<>>
        ELSE published[o] =
               encode_utf8(IF (level = "high") /= conf.inverted
                           THEN conf.on_payload ELSE conf.off_payload)

\* C19: whenever no set command and no pulse is in progress for an output, the
\* payload of the last publish to P/output/<name> corresponds to the level of
\* the last hardware write to the pin of that output, for any interleaving of
\* set commands and pulses.  Stated for the runs in which nothing went wrong:
\* no hardware write raised, the client is connected and no signal was received.
C19_PublishedMatchesHardware ==
    (faults = 0 /\ connected /\ shutdowns = <<>>) =>
        \A o \in OutputNames : ~InProgress(o) => PublishedMatchesPin(o)

\* C20: every pulse reverts.  A pulse task that has driven its output to the
\* requested level, has published it and has begun to hold does not end before
\* it has driven the output to the opposite level and published the opposite
\* payload, also when a termination signal arrives while it is holding.
\* Stated for the runs in which nothing else went wrong: at most one signal, the
\* receive loop not ended by an exception, the pulse task not ended by an
\* exception of its own write or publish.
C20_PulseReverts ==
    (Len(shutdowns) <= 1 /\ rx.why /= "error") =>
        \A i \in DOMAIN pulses :
            LET p == pulses[i]
            IN  (Done(p) /\ Len(p.trace) >= 3 /\ p.res /= "error") =>
                    /\ p.res = "ok"
                    /\ p.trace = ExpectedPulse(p)
====
